---- MODULE Spec2Model ----
(***************************************************************************)
(* A model of get_data.py, the directory-mirroring engine of 3DRadView:    *)
(* start_sync crawls a remote HTTP directory tree with sync_directory,     *)
(* downloads the radar files that are missing locally, prunes the local    *)
(* mirror with clean_local_files and rebuilds current_files.json with      *)
(* build_full_index_from_local.                                            *)
(*                                                                         *)
(* Representation.  An href is a sequence of tokens, SEP being the path    *)
(* separator: "a/" is <<"a", SEP>>, "x/f" is <<"x", SEP, "f">>.  A URL     *)
(* below HOST_URL and a path below TARGET_DIR are sequences of names.      *)
(* Every sync_directory call of a run has its url equal to its local_dir   *)
(* (both start at the root and are extended by the same subdir), so a call *)
(* is identified by that sequence.  asyncio runs one coroutine at a time   *)
(* and switches only at an await: every action below is the code between   *)
(* two suspension points.                                                  *)
(***************************************************************************)
EXTENDS Integers, Sequences, FiniteSets, TLC

\* ---------------------------------------------------------------- bounds
\* The values start_sync passes for concurrency and folder_conc (12 and 17
\* in the program) scaled down, the number of faults the environment may
\* inject, and the number of consecutive runs of the program.
Concurrency == 1
FolderConc == 2
MaxFaults == 3
MaxRuns == 2

\* ------------------------------------------------------ program constants
retries == 3

SEP == "/"
Root == << >>
INDEX_FILE_PATH == <<"current_files.json">>

\* ------------------------------------------------------------ file names
H1 == "_10132-20250529110000-deboo-hd5"
H2 == "_10410-20250529110500-deess-hd5"
PNG == "radar_photo.png"
TXT == "notes-hd5"

\* None of Python, as a value of the same shape as a metadata record.
None == [RadID |-> -1, timestamp |-> "", site |-> ""]

\* HD5_FILENAME_REGEX.search on the file names of the model: the regular
\* expression _(\d+)-(\d{14})-.*?([a-zA-Z]{3})-hd5$ evaluated on each name.
extract_info_from_filename(filename) ==
    CASE filename = H1 -> [RadID |-> 10132, timestamp |-> "20250529110000", site |-> "boo"]
      [] filename = H2 -> [RadID |-> 10410, timestamp |-> "20250529110500", site |-> "ess"]
      [] OTHER -> None

\* fn.endswith('-hd5') on the file names of the model.
endswith_hd5(fn) == fn \in {H1, H2, TXT}

\* link.endswith('/')
endswith_slash(link) == Len(link) > 0 /\ link[Len(link)] = SEP

\* os.path.basename: what follows the last separator.
basename(link) == IF link = << >> \/ endswith_slash(link) THEN "" ELSE link[Len(link)]

\* The names of a relative href, separators dropped.
Components(link) == SelectSeq(link, LAMBDA t : t # SEP)

\* urljoin(url, link) for a relative link; os.path.join(local_dir, subdir)
\* followed by the normalisation of os.path.relpath is the same function.
urljoin(url, link) == url \o Components(link)

\* os.path.relpath(os.path.join(local_dir, file_name), TARGET_DIR)
rel_path(local_dir, file_name) == local_dir \o <<file_name>>

\* --------------------------------------------------------- remote trees
PARENT == <<"..", SEP>>

\* Two directories side by side and one nested: the tree of the gates.
TreeWide ==
    (Root :> << PARENT, <<"a", SEP>>, <<"b", SEP>> >>) @@
    (<<"a">> :> << PARENT, <<H1>>, <<"a", SEP>> >>) @@
    (<<"b">> :> << PARENT, <<H1>>, <<PNG>> >>) @@
    (<<"a", "a">> :> << PARENT, <<PNG>> >>)

\* Matching and non-matching names, an anchor without href.
TreeFiles ==
    (Root :> << PARENT, <<H1>>, <<PNG>>, << >>, <<H2>>, <<"a", SEP>> >>) @@
    (<<"a">> :> << PARENT, <<PNG>>, <<H1>> >>)

\* Two hrefs with the same basename.
TreeDup ==
    (Root :> << PARENT, <<H1>>, <<"x", SEP, H1>> >>)

\* No files; deeper than folder_conc and with more subdirectories in one
\* directory than folder_conc.
TreeDeep ==
    (Root :> << PARENT, <<"a", SEP>>, <<"b", SEP>>, <<"c", SEP>> >>) @@
    (<<"a">> :> << PARENT, <<"a", SEP>> >>) @@
    (<<"b">> :> << PARENT >>) @@
    (<<"c">> :> << PARENT >>) @@
    (<<"a", "a">> :> << PARENT, <<"a", SEP>> >>) @@
    (<<"a", "a", "a">> :> << PARENT >>)

RemoteTrees == {TreeWide, TreeFiles, TreeDup, TreeDeep}

\* Files a previous, possibly interrupted, run or the user left behind.
LeftoverPaths == { <<"a", H1>>, <<"a", H2>>, <<PNG>> }

VARIABLES
    remote,            \* the remote tree: url -> anchors of its listing page
    disk,              \* the files below TARGET_DIR: path -> content
    index_json,        \* the records last written to current_files.json
    faults,            \* faults the environment may still inject
    run,               \* the number of the current run of the program
    phase,             \* where start_sync is
    pc,                \* per sync_directory call: where it is
    links,             \* per call: the links fetch_directory_listing returned
    found_files,       \* per call: its found_files set
    semaphore,         \* per call: free permits of its semaphore
    folder_semaphore,  \* per call: free permits of its folder_semaphore
    task,              \* per call: its download tasks
    remote_files,      \* start_sync: what the top-level sync_directory returned
    file_index,        \* start_sync: what build_full_index_from_local returned
    \* history of the run, read by the properties only
    dl_calls,          \* path -> number of download_file invocations
    exhausted,         \* paths whose download_file returned False
    list_failed,       \* urls whose listing fetch failed
    raised,            \* what raised out of start_sync, "" if nothing
    run_faults,        \* faults injected during this run: network, filesystem
    disk0,             \* the local files when the run started
    clean_log,         \* what clean_local_files saw and did
    prev               \* the summary of the previous run

vars == << remote, disk, index_json, faults, run, phase, pc, links, found_files,
           semaphore, folder_semaphore, task, remote_files, file_index,
           dl_calls, exhausted, list_failed, raised, run_faults, disk0,
           clean_log, prev >>

hist == << dl_calls, exhausted, list_failed, raised, disk0, clean_log, prev >>

Urls == DOMAIN remote

\* ------------------------------------------------------- pure functions
\* fetch_directory_listing: the hrefs of the page without the empty ones
\* and the parent link; [] when the request or the parse raised.
fetch_directory_listing(html, ok) ==
    IF ok THEN SelectSeq(html, LAMBDA href : href # << >> /\ href # PARENT)
    ELSE << >>

\* sync_directory lines 64-65
dirs_of(ls) == SelectSeq(ls, LAMBDA link : endswith_slash(link))
files_of(ls) == SelectSeq(ls, LAMBDA link : ~endswith_slash(link))

\* Mutant of hd5_files: every file link is selected, matching or not.
hd5_files_unfiltered(ls) == files_of(ls)

\* sync_directory lines 67-72: the links whose basename the pattern matches.
hd5_files(ls) ==
    SelectSeq(files_of(ls), LAMBDA link : extract_info_from_filename(basename(link)) # None)

Range(s) == { s[i] : i \in DOMAIN s }

\* The calls folder_task makes from call d, and the call that made call c.
Children(d) == { urljoin(d, l) : l \in Range(dirs_of(links[d])) }
Parent(c) == CHOOSE d \in Urls : c \in Children(d)

\* The local path download task i of call d writes.
TaskPath(d, i) == rel_path(d, basename(hd5_files(links[d])[i]))

Write(dk, p, c) == [q \in DOMAIN dk \cup {p} |-> IF q = p THEN c ELSE dk[q]]
Remove(dk, ps) == [q \in DOMAIN dk \ ps |-> dk[q]]
Bump(f, p) == [q \in DOMAIN f \cup {p} |-> IF q = p THEN (IF p \in DOMAIN f THEN f[p] + 1 ELSE 1) ELSE f[q]]

\* get_all_files(TARGET_DIR)
get_all_files(dk) == DOMAIN dk

\* Mutant of clean_targets: only radar files are pruned.
clean_targets_hd5_only(local_files, keep) ==
    { f \in local_files : f \notin keep /\ endswith_hd5(f[Len(f)]) }

\* The files clean_local_files removes (those whose os.remove succeeds).
clean_targets(local_files, keep) == { f \in local_files : f \notin keep }

\* Mutant of build_index: the records of the previous index are kept.
build_index_carry_over(dk) ==
    index_json \cup
    { [path |-> p, meta |-> extract_info_from_filename(p[Len(p)])] :
        p \in { q \in DOMAIN dk : /\ endswith_hd5(q[Len(q)])
                                  /\ extract_info_from_filename(q[Len(q)]) # None } }

\* build_full_index_from_local on the files of the disk.
build_index(dk) ==
    { [path |-> p, meta |-> extract_info_from_filename(p[Len(p)])] :
        p \in { q \in DOMAIN dk : /\ endswith_hd5(q[Len(q)])
                                  /\ extract_info_from_filename(q[Len(q)]) # None } }

NoFaults == [net |-> 0, fs |-> 0]
Fault(kind) == [run_faults EXCEPT ![kind] = @ + 1]

Summary ==
    [phase |-> phase, index |-> file_index, exhausted |-> exhausted,
     faults |-> run_faults, dl |-> dl_calls, raised |-> raised]

\* ------------------------------------------------------------------ Init
Init ==
    /\ remote \in RemoteTrees
    /\ \E left \in SUBSET LeftoverPaths : disk = [p \in left |-> "old"]
    /\ index_json = {}
    /\ faults = MaxFaults
    /\ run = 0
    /\ phase = "idle"
    /\ pc = [d \in DOMAIN remote |-> "none"]
    /\ links = [d \in DOMAIN remote |-> << >>]
    /\ found_files = [d \in DOMAIN remote |-> {}]
    /\ semaphore = [d \in DOMAIN remote |-> Concurrency]
    /\ folder_semaphore = [d \in DOMAIN remote |-> FolderConc]
    /\ task = [d \in DOMAIN remote |-> << >>]
    /\ remote_files = {}
    /\ file_index = {}
    /\ dl_calls = << >>
    /\ exhausted = {}
    /\ list_failed = {}
    /\ raised = ""
    /\ run_faults = NoFaults
    /\ disk0 = disk
    /\ clean_log = [before |-> {}, failed |-> {}]
    /\ prev = [phase |-> "idle", index |-> {}, exhausted |-> {}, faults |-> NoFaults,
               dl |-> << >>, raised |-> ""]

\* A download task that has not started: where it is, the index of its
\* attempt in download_file, what os.path.exists answered, the number of
\* asyncio.sleep calls and what download_file returned ("" before that).
NewTask == [pc |-> "new", attempt |-> 0, exists |-> FALSE, sleeps |-> 0, result |-> ""]

\* --------------------------------------------------------------- actions
\* start_sync lines 139-142: a run begins; the top-level sync_directory
\* awaits the root listing.
start_sync ==
    /\ phase \in {"idle", "complete", "raised"}
    /\ run < MaxRuns
    /\ run' = run + 1
    /\ phase' = "sync"
    /\ pc' = [d \in Urls |-> IF d = Root THEN "fetch" ELSE "none"]
    /\ links' = [d \in Urls |-> << >>]
    /\ found_files' = [d \in Urls |-> {}]
    /\ semaphore' = [d \in Urls |-> Concurrency]
    /\ folder_semaphore' = [d \in Urls |-> FolderConc]
    /\ task' = [d \in Urls |-> << >>]
    /\ remote_files' = {}
    /\ file_index' = {}
    /\ dl_calls' = << >>
    /\ exhausted' = {}
    /\ list_failed' = {}
    /\ raised' = ""
    /\ run_faults' = NoFaults
    /\ disk0' = disk
    /\ clean_log' = [before |-> {}, failed |-> {}]
    /\ prev' = Summary
    /\ UNCHANGED << remote, disk, index_json, faults >>

\* Mutant of sync_return: the caller assigns the returned set instead of
\* merging it.
sync_return_assign(d) ==
    /\ pc' = [pc EXCEPT ![d] = "done"]
    /\ IF d = Root
       THEN /\ remote_files' = found_files[d]
            /\ phase' = "clean"
            /\ UNCHANGED << found_files, folder_semaphore >>
       ELSE /\ found_files' = [found_files EXCEPT ![Parent(d)] = found_files[d]]
            /\ folder_semaphore' = [folder_semaphore EXCEPT ![Parent(d)] = @ + 1]
            /\ UNCHANGED << remote_files, phase >>

\* sync_directory line 103 in call d: return found_files.  In a folder_task
\* (lines 98-99 and the exit of "async with folder_semaphore") the caller
\* merges the set and releases its permit; at the top level start_sync
\* goes on to clean_local_files (line 143).
sync_return(d) ==
    /\ pc' = [pc EXCEPT ![d] = "done"]
    /\ IF d = Root
       THEN /\ remote_files' = found_files[d]
            /\ phase' = "clean"
            /\ UNCHANGED << found_files, folder_semaphore >>
       ELSE /\ found_files' = [found_files EXCEPT ![Parent(d)] = @ \cup found_files[d]]
            /\ folder_semaphore' = [folder_semaphore EXCEPT ![Parent(d)] = @ + 1]
            /\ UNCHANGED << remote_files, phase >>

\* sync_directory lines 92-102 in call d whose listing is ls: one
\* folder_task per subdirectory, each waiting for folder_semaphore; with no
\* subdirectory gather returns at once and the call returns.
sync_folders(d, ls) ==
    IF dirs_of(ls) = << >>
    THEN sync_return(d)
    ELSE /\ pc' = [c \in Urls |->
                     IF c = d THEN "dirs"
                     ELSE IF c \in { urljoin(d, l) : l \in Range(dirs_of(ls)) } THEN "acquire"
                     ELSE pc[c]]
         /\ UNCHANGED << found_files, folder_semaphore, remote_files, phase >>

\* sync_directory lines 63-90 in call d: the listing arrives (or the fetch
\* fails and yields []), the download tasks are created and gathered.
sync_directory(d) ==
    /\ phase = "sync"
    /\ pc[d] = "fetch"
    /\ \E ok \in BOOLEAN :
        /\ ~ok => faults > 0
        /\ faults' = IF ok THEN faults ELSE faults - 1
        /\ run_faults' = IF ok THEN run_faults ELSE Fault("net")
        /\ list_failed' = IF ok THEN list_failed ELSE list_failed \cup {d}
        /\ LET ls == fetch_directory_listing(remote[d], ok) IN
            /\ links' = [links EXCEPT ![d] = ls]
            /\ IF hd5_files(ls) # << >>
               THEN /\ task' = [task EXCEPT ![d] =
                                  [i \in 1..Len(hd5_files(ls)) |-> NewTask]]
                    /\ pc' = [pc EXCEPT ![d] = "files"]
                    /\ UNCHANGED << found_files, folder_semaphore, remote_files, phase >>
               ELSE /\ task' = task
                    /\ sync_folders(d, ls)
    /\ UNCHANGED << remote, disk, index_json, run, semaphore, file_index,
                    dl_calls, exhausted, raised, disk0, clean_log, prev >>

\* Mutant of download_task: the path joins found_files only when the file
\* is missing.
download_task_found_if_missing(d, i) ==
    /\ phase = "sync"
    /\ pc[d] = "files"
    /\ i \in DOMAIN task[d]
    /\ task[d][i].pc = "new"
    /\ found_files' = [found_files EXCEPT ![d] =
                         IF TaskPath(d, i) \in DOMAIN disk THEN @ ELSE @ \cup {TaskPath(d, i)}]
    /\ task' = [task EXCEPT ![d][i].exists = TaskPath(d, i) \in DOMAIN disk,
                            ![d][i].pc =
                  IF TaskPath(d, i) \in DOMAIN disk THEN "done" ELSE "acquire"]
    /\ UNCHANGED << remote, disk, index_json, faults, run, phase, pc, links,
                    semaphore, folder_semaphore, remote_files, file_index,
                    run_faults, hist >>

\* Mutant of download_task: no check that the file exists.
download_task_no_exists_check(d, i) ==
    /\ phase = "sync"
    /\ pc[d] = "files"
    /\ i \in DOMAIN task[d]
    /\ task[d][i].pc = "new"
    /\ found_files' = [found_files EXCEPT ![d] = @ \cup {TaskPath(d, i)}]
    /\ task' = [task EXCEPT ![d][i].exists = TaskPath(d, i) \in DOMAIN disk,
                            ![d][i].pc = "acquire"]
    /\ UNCHANGED << remote, disk, index_json, faults, run, phase, pc, links,
                    semaphore, folder_semaphore, remote_files, file_index,
                    run_faults, hist >>

\* Mutant of download_task: a file counts as present only when it is
\* complete.
download_task_verify_content(d, i) ==
    /\ phase = "sync"
    /\ pc[d] = "files"
    /\ i \in DOMAIN task[d]
    /\ task[d][i].pc = "new"
    /\ found_files' = [found_files EXCEPT ![d] = @ \cup {TaskPath(d, i)}]
    /\ task' = [task EXCEPT ![d][i].exists = TaskPath(d, i) \in DOMAIN disk,
                            ![d][i].pc =
                  IF TaskPath(d, i) \in DOMAIN disk /\ disk[TaskPath(d, i)] = "full"
                  THEN "done" ELSE "acquire"]
    /\ UNCHANGED << remote, disk, index_json, faults, run, phase, pc, links,
                    semaphore, folder_semaphore, remote_files, file_index,
                    run_faults, hist >>

\* download_task lines 78-87, task i of call d, from its start to its first
\* suspension: the path joins found_files; an existing file is skipped, a
\* missing one waits for the semaphore.
download_task(d, i) ==
    /\ phase = "sync"
    /\ pc[d] = "files"
    /\ i \in DOMAIN task[d]
    /\ task[d][i].pc = "new"
    /\ found_files' = [found_files EXCEPT ![d] = @ \cup {TaskPath(d, i)}]
    /\ task' = [task EXCEPT ![d][i].exists = TaskPath(d, i) \in DOMAIN disk,
                            ![d][i].pc =
                  IF TaskPath(d, i) \in DOMAIN disk THEN "done" ELSE "acquire"]
    /\ UNCHANGED << remote, disk, index_json, faults, run, phase, pc, links,
                    semaphore, folder_semaphore, remote_files, file_index,
                    run_faults, hist >>

\* asyncio.run after an exception left start_sync: every task still pending
\* is cancelled; CancelledError leaves each "async with", which releases
\* the permit it holds.
cancel_tasks(ts) ==
    [c \in DOMAIN ts |-> [j \in DOMAIN ts[c] |->
        IF ts[c][j].pc \in {"new", "acquire", "get", "stream", "sleep"}
        THEN [ts[c][j] EXCEPT !.pc = "cancelled"] ELSE ts[c][j]]]
cancel_calls(cs) ==
    [c \in DOMAIN cs |-> IF cs[c] \in {"acquire", "fetch", "files", "dirs"}
                         THEN "cancelled" ELSE cs[c]]

\* download_task line 83 and download_file line 40: the task takes a permit
\* and download_file creates the parent directory.  os.makedirs is outside
\* the try of download_file: when it raises, the exception leaves
\* download_task (releasing the permit), gather, every enclosing
\* sync_directory and start_sync, and asyncio.run cancels what is in flight.
download_file_begin(d, i) ==
    /\ phase = "sync"
    /\ i \in DOMAIN task[d]
    /\ task[d][i].pc = "acquire"
    /\ semaphore[d] > 0
    /\ dl_calls' = Bump(dl_calls, TaskPath(d, i))
    /\ \E ok \in BOOLEAN :
        /\ ~ok => faults > 0
        /\ faults' = IF ok THEN faults ELSE faults - 1
        /\ run_faults' = IF ok THEN run_faults ELSE Fault("fs")
        /\ IF ok
           THEN /\ semaphore' = [semaphore EXCEPT ![d] = @ - 1]
                /\ task' = [task EXCEPT ![d][i].pc = "get"]
                /\ UNCHANGED << phase, raised, pc, folder_semaphore >>
           ELSE /\ semaphore' = [c \in Urls |-> Concurrency]
                /\ folder_semaphore' = [c \in Urls |-> FolderConc]
                /\ task' = cancel_tasks([task EXCEPT ![d][i].pc = "raised"])
                /\ pc' = cancel_calls(pc)
                /\ phase' = "raised"
                /\ raised' = "makedirs"
    /\ UNCHANGED << remote, disk, index_json, run, links, found_files,
                    remote_files, file_index, exhausted,
                    list_failed, disk0, clean_log, prev >>

\* Mutant of attempt_failed: one attempt too many (attempt < retries).
attempt_failed_off_by_one(d, i, kind) ==
    /\ faults > 0
    /\ faults' = faults - 1
    /\ run_faults' = Fault(kind)
    /\ IF task[d][i].attempt < retries
       THEN /\ task' = [task EXCEPT ![d][i].pc = "sleep", ![d][i].sleeps = @ + 1]
            /\ UNCHANGED << semaphore, exhausted >>
       ELSE /\ task' = [task EXCEPT ![d][i].pc = "done", ![d][i].result = "False"]
            /\ semaphore' = [semaphore EXCEPT ![d] = @ + 1]
            /\ exhausted' = exhausted \cup {TaskPath(d, i)}

\* Mutant of attempt_failed: the permit is not released when download_file
\* returns False.
attempt_failed_no_release(d, i, kind) ==
    /\ faults > 0
    /\ faults' = faults - 1
    /\ run_faults' = Fault(kind)
    /\ IF task[d][i].attempt < retries - 1
       THEN /\ task' = [task EXCEPT ![d][i].pc = "sleep", ![d][i].sleeps = @ + 1]
            /\ UNCHANGED << semaphore, exhausted >>
       ELSE /\ task' = [task EXCEPT ![d][i].pc = "done", ![d][i].result = "False"]
            /\ semaphore' = semaphore
            /\ exhausted' = exhausted \cup {TaskPath(d, i)}

\* download_file lines 54-60 for task i of call d: the except branch of an
\* attempt.  Before the last attempt the task sleeps; after it download_file
\* returns False and download_task releases the permit.
attempt_failed(d, i, kind) ==
    /\ faults > 0
    /\ faults' = faults - 1
    /\ run_faults' = Fault(kind)
    /\ IF task[d][i].attempt < retries - 1
       THEN /\ task' = [task EXCEPT ![d][i].pc = "sleep", ![d][i].sleeps = @ + 1]
            /\ UNCHANGED << semaphore, exhausted >>
       ELSE /\ task' = [task EXCEPT ![d][i].pc = "done", ![d][i].result = "False"]
            /\ semaphore' = [semaphore EXCEPT ![d] = @ + 1]
            /\ exhausted' = exhausted \cup {TaskPath(d, i)}

\* download_file lines 43-46: the response arrives.  With status 200 the
\* destination is opened 'wb' (created or truncated); a connection error, a
\* status other than 200 or a failure to open the file is an exception.
\* The tasks gather creates at line 90 are scheduled together and each runs
\* to its first suspension before the event loop polls for I/O: no
\* response arrives while a task of the same call has yet to start.
download_file_get(d, i) ==
    /\ phase = "sync"
    /\ i \in DOMAIN task[d]
    /\ task[d][i].pc = "get"
    /\ \A j \in DOMAIN task[d] : task[d][j].pc # "new"
    /\ \E r \in {"opened", "ClientError", "HTTP 404", "OSError"} :
        IF r = "opened"
        THEN /\ disk' = Write(disk, TaskPath(d, i), "part")
             /\ task' = [task EXCEPT ![d][i].pc = "stream"]
             /\ UNCHANGED << faults, run_faults, semaphore, exhausted >>
        ELSE /\ attempt_failed(d, i, IF r = "OSError" THEN "fs" ELSE "net")
             /\ disk' = disk
    /\ UNCHANGED << remote, index_json, run, phase, pc, links, found_files,
                    folder_semaphore, remote_files, file_index, dl_calls,
                    list_failed, raised, disk0, clean_log, prev >>

\* download_file lines 47-53: the body is streamed to the file.  At the end
\* of the stream download_file returns True and download_task releases the
\* permit; an error while reading or writing is an exception, and what was
\* written stays on the disk.
download_file_stream(d, i) ==
    /\ phase = "sync"
    /\ i \in DOMAIN task[d]
    /\ task[d][i].pc = "stream"
    /\ \E r \in {"eof", "ClientError", "OSError"} :
        IF r = "eof"
        THEN /\ disk' = Write(disk, TaskPath(d, i), "full")
             /\ task' = [task EXCEPT ![d][i].pc = "done", ![d][i].result = "True"]
             /\ semaphore' = [semaphore EXCEPT ![d] = @ + 1]
             /\ UNCHANGED << faults, run_faults, exhausted >>
        ELSE /\ attempt_failed(d, i, IF r = "OSError" THEN "fs" ELSE "net")
             /\ disk' = disk
    /\ UNCHANGED << remote, index_json, run, phase, pc, links, found_files,
                    folder_semaphore, remote_files, file_index, dl_calls,
                    list_failed, raised, disk0, clean_log, prev >>

\* download_file line 57: asyncio.sleep(1) ends and the next attempt starts.
download_file_retry(d, i) ==
    /\ phase = "sync"
    /\ i \in DOMAIN task[d]
    /\ task[d][i].pc = "sleep"
    /\ task' = [task EXCEPT ![d][i].pc = "get", ![d][i].attempt = @ + 1]
    /\ UNCHANGED << remote, disk, index_json, faults, run, phase, pc, links,
                    found_files, semaphore, folder_semaphore, remote_files,
                    file_index, run_faults, hist >>

\* sync_directory line 90 in call d: gather returns when every download
\* task has ended, and the call goes on with its subdirectories.
gather_downloads(d) ==
    /\ phase = "sync"
    /\ pc[d] = "files"
    /\ \A i \in DOMAIN task[d] : task[d][i].pc = "done"
    /\ sync_folders(d, links[d])
    /\ UNCHANGED << remote, disk, index_json, faults, run, links, semaphore,
                    task, file_index, run_faults, hist >>

\* folder_task lines 95-98 for the subdirectory whose call is c: it takes
\* a permit of its caller's folder_semaphore and calls sync_directory,
\* which awaits the listing.
folder_task(c) ==
    /\ phase = "sync"
    /\ pc[c] = "acquire"
    /\ folder_semaphore[Parent(c)] > 0
    /\ folder_semaphore' = [folder_semaphore EXCEPT ![Parent(c)] = @ - 1]
    /\ pc' = [pc EXCEPT ![c] = "fetch"]
    /\ UNCHANGED << remote, disk, index_json, faults, run, phase, links,
                    found_files, semaphore, task, remote_files, file_index,
                    run_faults, hist >>

\* Mutant of gather_folders: the call returns when one folder_task has
\* ended.
gather_folders_any(d) ==
    /\ phase = "sync"
    /\ pc[d] = "dirs"
    /\ \E c \in Children(d) : pc[c] = "done"
    /\ sync_return(d)
    /\ UNCHANGED << remote, disk, index_json, faults, run, links, semaphore,
                    task, file_index, run_faults, hist >>

\* sync_directory lines 102-103 in call d: gather returns when every
\* folder_task has ended, and the call returns.
gather_folders(d) ==
    /\ phase = "sync"
    /\ pc[d] = "dirs"
    /\ \A c \in Children(d) : pc[c] = "done"
    /\ sync_return(d)
    /\ UNCHANGED << remote, disk, index_json, faults, run, links, semaphore,
                    task, file_index, run_faults, hist >>

\* clean_local_files: every local file that is not in remote_files is
\* removed; an os.remove that raises is logged and the file stays.  The
\* function never awaits inside its loop.
clean_local_files ==
    /\ phase = "clean"
    /\ LET local_files == get_all_files(disk)
           targets == clean_targets(local_files, remote_files) IN
        \E failed \in SUBSET targets :
            /\ Cardinality(failed) <= faults
            /\ faults' = faults - Cardinality(failed)
            /\ run_faults' = [run_faults EXCEPT !.fs = @ + Cardinality(failed)]
            /\ disk' = Remove(disk, targets \ failed)
            /\ clean_log' = [before |-> local_files, failed |-> failed]
    /\ phase' = "index"
    /\ UNCHANGED << remote, index_json, run, pc, links, found_files, semaphore,
                    folder_semaphore, task, remote_files, file_index,
                    dl_calls, exhausted, list_failed, raised, disk0, prev >>

\* start_sync line 144: the index is rebuilt from the local files.
build_full_index_from_local ==
    /\ phase = "index"
    /\ file_index' = build_index(disk)
    /\ phase' = "write"
    /\ UNCHANGED << remote, disk, index_json, faults, run, pc, links,
                    found_files, semaphore, folder_semaphore, task,
                    remote_files, run_faults, hist >>

\* start_sync lines 145-147: current_files.json is written; a failure to
\* open it raises out of start_sync.
write_index ==
    /\ phase = "write"
    /\ \E ok \in BOOLEAN :
        /\ ~ok => faults > 0
        /\ faults' = IF ok THEN faults ELSE faults - 1
        /\ run_faults' = IF ok THEN run_faults ELSE Fault("fs")
        /\ IF ok
           THEN /\ disk' = Write(disk, INDEX_FILE_PATH, "json")
                /\ index_json' = file_index
                /\ phase' = "complete"
                /\ raised' = raised
           ELSE /\ UNCHANGED << disk, index_json >>
                /\ phase' = "raised"
                /\ raised' = "index"
    /\ UNCHANGED << remote, run, pc, links, found_files, semaphore,
                    folder_semaphore, task, remote_files, file_index,
                    dl_calls, exhausted, list_failed, disk0, clean_log, prev >>

Next ==
    \/ start_sync
    \/ \E d \in Urls : sync_directory(d)
    \/ \E d \in Urls : \E i \in DOMAIN task[d] : download_task(d, i)
    \/ \E d \in Urls : \E i \in DOMAIN task[d] : download_file_begin(d, i)
    \/ \E d \in Urls : \E i \in DOMAIN task[d] : download_file_get(d, i)
    \/ \E d \in Urls : \E i \in DOMAIN task[d] : download_file_stream(d, i)
    \/ \E d \in Urls : \E i \in DOMAIN task[d] : download_file_retry(d, i)
    \/ \E d \in Urls : gather_downloads(d)
    \/ \E d \in Urls : folder_task(d)
    \/ \E d \in Urls : gather_folders(d)
    \/ clean_local_files
    \/ build_full_index_from_local
    \/ write_index

Spec == Init /\ [][Next]_vars

\* The event loop runs every task that is ready, and every request ends
\* with a response or an exception.
FairSpec == Spec /\ WF_vars(Next)

\* ------------------------------------------------------------ properties
\* The download_file executions in flight: invoked and not yet returned.
InFlight ==
    UNION { { <<d, i>> : i \in { j \in DOMAIN task[d] :
                                   task[d][j].pc \in {"get", "stream", "sleep"} } } :
            d \in Urls }

\* The recursive sync_directory calls a folder_task started and that have
\* not returned.
ActiveTraversals == { c \in Urls : c # Root /\ pc[c] \in {"fetch", "files", "dirs"} }

\* The top-level sync_directory has returned.
SyncReturned ==
    \/ phase \in {"clean", "index", "write", "complete"}
    \/ phase = "raised" /\ raised = "index"

Matches(link) == extract_info_from_filename(basename(link)) # None

\* The would-be local paths of the file entries of the listings fetched in
\* this run: all of them, and those whose name matches the grammar.
ObservedFiles ==
    UNION { { rel_path(d, basename(l)) : l \in Range(files_of(links[d])) } : d \in Urls }
ObservedMatching ==
    UNION { { rel_path(d, basename(l)) :
                l \in { k \in Range(files_of(links[d])) : Matches(k) } } : d \in Urls }
ObservedNonMatching ==
    UNION { { rel_path(d, basename(l)) :
                l \in { k \in Range(files_of(links[d])) : ~Matches(k) } } : d \in Urls }

Indexed(index, p) == \E r \in index : r.path = p

\* C1 (as claimed): the download_file executions in flight, counted over
\* all directories of the tree, never exceed the concurrency argument.
C1_GlobalDownloadBound == Cardinality(InFlight) <= Concurrency

\* C2 (as claimed): the recursive traversals active at the same time,
\* counted over all nesting levels, never exceed the folder_conc argument.
C2_GlobalTraversalBound == Cardinality(ActiveTraversals) <= FolderConc

C5_Pruning ==
    (phase \in {"index", "write", "complete"} /\ clean_log.failed = {}) =>
        \A f \in clean_log.before :
            /\ (f \notin remote_files /\ ~(phase = "complete" /\ f = INDEX_FILE_PATH))
                  => f \notin DOMAIN disk
            /\ f \in remote_files => f \in DOMAIN disk

C5_Witness ==
    /\ phase = "index"
    /\ clean_log.failed = {}
    /\ \E f \in clean_log.before : f \notin remote_files /\ f \notin DOMAIN disk
    /\ \E f \in clean_log.before : f \in remote_files /\ f \in DOMAIN disk

\* C6 (as claimed): a file whose download failed on every attempt in the
\* previous run, and that is listed again in this run, has download_file
\* invoked for it again.
C6_ExhaustedIsRetried ==
    (run >= 2 /\ phase = "complete") =>
        \A p \in prev.exhausted : p \in remote_files => p \in DOMAIN dl_calls

\* C7 (as claimed): when the listing fetch of the root URL fails, the run
\* does not go on to prune the mirror, write the index and complete.
C7_RootFailureSurfaced == ~(Root \in list_failed /\ phase = "complete")

\* C8 (as claimed): no failure of one file or directory (a listing fetch,
\* a download, the creation of a destination directory, a write) keeps the
\* run from reaching reconciliation and the index write: the only thing
\* that raises out of start_sync is the index write itself.
C8_NoFileFailureAborts == phase = "raised" => raised = "index"

\* The subdirectories next to c.
Siblings(c) == Children(Parent(c)) \ {c}

\* A run that completed with one fault only: the listing fetch of c failed.
OnlyListingFailed(c) ==
    /\ phase = "complete"
    /\ c # Root
    /\ list_failed = {c}
    /\ run_faults = [net |-> 1, fs |-> 0]

SecondRunComplete == run >= 2 /\ phase = "complete" /\ prev.phase = "complete"

\* C10 (as claimed): with a fault-free transport, the second of two runs
\* in succession invokes download_file zero times and writes an index with
\* the same records as the first.
C10_Idempotent ==
    (SecondRunComplete /\ prev.faults.net = 0 /\ run_faults.net = 0) =>
        /\ dl_calls = << >>
        /\ index_json = prev.index

\* C10 (amended): with a fault-free transport and a fault-free local
\* filesystem, the second of two runs in succession invokes download_file
\* zero times and writes an index with the same records as the first.
C10_IdempotentNoFaults ==
    (SecondRunComplete /\ prev.faults = NoFaults /\ run_faults = NoFaults) =>
        /\ dl_calls = << >>
        /\ index_json = prev.index

C10_Witness ==
    /\ SecondRunComplete
    /\ prev.faults = NoFaults /\ run_faults = NoFaults
    /\ prev.dl # << >>
    /\ index_json # {}

\* The download tasks of the run.
Tasks == UNION { { <<d, i>> : i \in DOMAIN task[d] } : d \in Urls }

\* C11: download_file is invoked by a task only if os.path.exists answered
\* False when the task checked; a file that exists when its task runs is
\* never requested and keeps its content during the sync phase, whatever
\* the content is.
C11_SkipIfExists ==
    \A x \in Tasks :
        LET t == task[x[1]][x[2]]
            p == TaskPath(x[1], x[2]) IN
        /\ (t.pc \in {"get", "stream", "sleep", "raised"} \/ t.result # "") => ~t.exists
        /\ t.exists =>
              /\ p \notin DOMAIN dl_calls
              /\ p \in DOMAIN disk0
              /\ phase = "sync" => (p \in DOMAIN disk /\ disk[p] = disk0[p])

C11_Witness ==
    /\ phase = "complete"
    /\ DOMAIN dl_calls # {}
    /\ \E x \in Tasks : /\ task[x[1]][x[2]].exists
                        /\ disk[TaskPath(x[1], x[2])] = "part"

\* C12: when a run completes, the written index has exactly one record
\* for every file below the mirror root whose name matches the grammar, no
\* record of a path that is not on the disk and nothing of the previous
\* index, whatever files the run found on the disk when it started.
C12_IndexMatchesDisk ==
    phase = "complete" =>
        /\ INDEX_FILE_PATH \in DOMAIN disk
        /\ \A p \in DOMAIN disk :
              extract_info_from_filename(p[Len(p)]) # None =>
                  /\ Cardinality({ r \in index_json : r.path = p }) = 1
                  /\ \A r \in index_json :
                        r.path = p => r.meta = extract_info_from_filename(p[Len(p)])
        /\ \A r \in index_json :
              /\ r.path \in DOMAIN disk
              /\ extract_info_from_filename(r.path[Len(r.path)]) # None

C12_Witness ==
    /\ phase = "complete"
    /\ prev.raised = "makedirs"
    /\ index_json # {}
    /\ \E p \in DOMAIN disk0 : disk0[p] # "full"

\* C13 (as claimed): each local path is dispatched to download_file at
\* most once per run.
C13_DispatchedOnce == \A p \in DOMAIN dl_calls : dl_calls[p] <= 1

\* A call that returned has all its download tasks and folder tasks ended,
\* and from reconciliation on nothing of the run is in flight.
C14_Settled ==
    /\ \A d \in Urls : pc[d] = "done" =>
          /\ \A i \in DOMAIN task[d] : task[d][i].pc = "done"
          /\ \A c \in Children(d) : pc[c] = "done"
    /\ phase \in {"clean", "index", "write", "complete"} =>
          /\ InFlight = {}
          /\ ActiveTraversals = {}
          /\ \A x \in Tasks : task[x[1]][x[2]].pc = "done"
          /\ pc[Root] = "done"

\* Reconciliation follows the sync, the index build follows reconciliation,
\* the index write follows the build; files are deleted during
\* reconciliation only and the index is written during the write only.
C14_Order ==
    /\ (phase' = "clean" /\ phase # "clean") => phase = "sync"
    /\ (phase' = "index" /\ phase # "index") => phase = "clean"
    /\ (phase' = "write" /\ phase # "write") => phase = "index"
    /\ (phase' = "complete" /\ phase # "complete") => phase = "write"
    /\ (\E p \in DOMAIN disk : p \notin DOMAIN disk') => phase = "clean"
    /\ (index_json' # index_json \/ file_index' # file_index) =>
          phase \in {"index", "write", "complete", "idle", "raised"}

\* C14: a sync_directory call returns only after every download task and
\* every folder task it issued has ended; reconciliation starts only when
\* nothing of the run is in flight, the index build follows reconciliation
\* and the index write follows the index build.
C14_PhaseOrdering == []C14_Settled /\ [][C14_Order]_vars

C14_Witness ==
    /\ phase = "clean"
    /\ DOMAIN dl_calls # {}
    /\ \E c \in Urls : c # Root /\ pc[c] = "done"

\* The HTTP attempts a download_file call has made.
Attempts(t) ==
    IF t.pc \in {"get", "stream", "sleep"} \/ t.result # "" THEN t.attempt + 1 ELSE 0

\* The retry loop of download_file, for a call that is in it or returned.
RetryLoop(t) ==
    /\ Attempts(t) >= 1 /\ Attempts(t) <= retries
    /\ t.result = "False" => (Attempts(t) = retries /\ t.sleeps = retries - 1)
    /\ t.result = "True" => t.sleeps = Attempts(t) - 1
    /\ t.result # "" => t.pc = "done"
    /\ t.pc \in {"get", "stream"} => t.sleeps = t.attempt
    /\ t.pc = "sleep" => (t.sleeps = t.attempt + 1 /\ t.attempt < retries - 1)

C16_GateDiscipline ==
    /\ \A d \in Urls :
          /\ semaphore[d] >= 0 /\ folder_semaphore[d] >= 0
          /\ semaphore[d] = Concurrency -
                Cardinality({ i \in DOMAIN task[d] :
                                task[d][i].pc \in {"get", "stream", "sleep"} })
          /\ folder_semaphore[d] = FolderConc -
                Cardinality({ c \in Children(d) : pc[c] \in {"fetch", "files", "dirs"} })
    /\ phase \in {"clean", "index", "write", "complete", "raised"} =>
          \A d \in Urls : semaphore[d] = Concurrency /\ folder_semaphore[d] = FolderConc

C16_Witness ==
    /\ phase = "complete"
    /\ exhausted # {}
    /\ \E x \in Tasks : task[x[1]][x[2]].result = "True"
    /\ \E c \in Urls : c # Root /\ pc[c] = "done"

\* C17 (as claimed): under fair scheduling every run, whatever fails in
\* it, reaches the index write.
C17_ReachesIndexWrite ==
    \A r \in 1..MaxRuns :
        (run = r /\ phase = "sync") ~> (run = r /\ phase = "write")

\* Apart from an os.makedirs that raises, every run reaches the index
\* write: no task waits for ever for a permit.
TerminatesOrRaises ==
    \A r \in 1..MaxRuns :
        (run = r /\ phase = "sync") ~>
            (run = r /\ (phase = "write" \/ raised = "makedirs"))

\* The local paths of the radar files the remote tree lists.
RemoteListed ==
    UNION { { rel_path(d, basename(l)) :
                l \in { k \in Range(files_of(fetch_directory_listing(remote[d], TRUE))) :
                          Matches(k) } } : d \in Urls }

\* C18 (as claimed, for the files the program mirrors): reconciliation
\* never deletes a local file that its remote parent directory still lists.
C18_NoLossOfRemoteData ==
    phase \in {"index", "write", "complete"} =>
        \A p \in clean_log.before : p \in RemoteListed => p \in DOMAIN disk

\* C19 (as claimed): once a run has completed, current_files.json is on the
\* disk in every later state.
C19_IndexFilePresent ==
    (phase = "complete" \/ prev.phase = "complete") => INDEX_FILE_PATH \in DOMAIN disk
====
